---- MODULE Spec2Model ----
(***************************************************************************)
(* Model of calculator.py: the DCA accumulation loop of calculate_dca and  *)
(* the derived metrics that main computes from its result.                 *)
(*                                                                         *)
(* Floats are modelled as exact extended rationals <<n, d>> in lowest      *)
(* terms with d >= 0: d > 0 is the finite value n/d, <<1, 0>> is +inf,     *)
(* <<-1, 0>> is -inf and <<0, 0>> is NaN, with the IEEE-754 rules numpy    *)
(* applies for division by zero, inf and NaN (a warning, never an          *)
(* exception).  Rounding of finite results is not modelled.                *)
(***************************************************************************)
EXTENDS Integers, Sequences, FiniteSets, TLC

VARIABLES filtered_data, regular_contribution, initial_investment,
          i, total_invested, total_shares, dca_log, pc, result,
          final_value, net_gain_loss, net_gain_loss_pct

vars == <<filtered_data, regular_contribution, initial_investment,
          i, total_invested, total_shares, dca_log, pc, result,
          final_value, net_gain_loss, net_gain_loss_pct>>

\* ---- bounds of the explored inputs ----
MaxLen == 2
MaxPrice == 2
MaxContribution == 2
MaxDate == 2

\* units of the reference scenario: prices 10, 20, ...; contributions 100, 50
PriceUnit == 10
ContributionUnit == 50

Prices == {p * PriceUnit : p \in -1..MaxPrice}
Contributions == {c * ContributionUnit : c \in -1..MaxContribution}
Dates == 1..MaxDate
Rows == [Date : Dates, Close : Prices]
SeqsUpTo(S, n) == UNION {[1..k -> S] : k \in 0..n}

\* ---- float arithmetic ----
Abs(x) == IF x < 0 THEN -x ELSE x
Sign(x) == IF x < 0 THEN -1 ELSE IF x > 0 THEN 1 ELSE 0

RECURSIVE GCD(_, _)
GCD(a, b) == IF b = 0 THEN a ELSE GCD(b, a % b)

NaN == <<0, 0>>
Norm(n, d) == LET g == GCD(Abs(n), d) IN <<Sign(n) * (Abs(n) \div g), d \div g>>
F(x) == <<x, 1>>
IsNaN(a) == a = NaN
IsInf(a) == a[2] = 0 /\ a[1] # 0
IsFinite(a) == a[2] > 0
IsZero(a) == a[2] > 0 /\ a[1] = 0

FAdd(a, b) ==
    IF IsNaN(a) \/ IsNaN(b) THEN NaN
    ELSE IF IsInf(a) /\ IsInf(b) THEN (IF a = b THEN a ELSE NaN)
    ELSE IF IsInf(a) THEN a
    ELSE IF IsInf(b) THEN b
    ELSE Norm(a[1] * b[2] + b[1] * a[2], a[2] * b[2])

FNeg(a) == <<-a[1], a[2]>>
FSub(a, b) == FAdd(a, FNeg(b))

FMul(a, b) ==
    IF IsNaN(a) \/ IsNaN(b) THEN NaN
    ELSE IF IsInf(a) \/ IsInf(b)
         THEN (IF IsZero(a) \/ IsZero(b) THEN NaN
               ELSE <<Sign(a[1]) * Sign(b[1]), 0>>)
    ELSE Norm(a[1] * b[1], a[2] * b[2])

FDiv(a, b) ==
    IF IsNaN(a) \/ IsNaN(b) THEN NaN
    ELSE IF IsInf(a) THEN (IF IsInf(b) THEN NaN
                           ELSE IF IsZero(b) THEN a
                           ELSE <<Sign(a[1]) * Sign(b[1]), 0>>)
    ELSE IF IsInf(b) THEN F(0)
    ELSE IF IsZero(b) THEN (IF IsZero(a) THEN NaN ELSE <<Sign(a[1]), 0>>)
    ELSE Norm(Sign(b[1]) * a[1] * b[2], a[2] * Abs(b[1]))

\* a <= b on floats; false whenever a NaN is involved
FLe(a, b) ==
    IF IsNaN(a) \/ IsNaN(b) THEN FALSE
    ELSE IF a = b THEN TRUE
    ELSE IF IsInf(a) THEN a[1] < 0
    ELSE IF IsInf(b) THEN b[1] > 0
    ELSE a[1] * b[2] <= b[1] * a[2]

\* ---- calculate_dca ----
NotComputed == <<>>

\* bug variants of Contribution: the initial investment added at every
\* interval, or at the second interval instead of the first
ContributionEveryInterval(idx, regular, initial) == regular + initial
ContributionOffByOne(idx, regular, initial) ==
    IF idx = 1 THEN regular + initial ELSE regular

\* contribution of the interval with 0-based index idx
Contribution(idx, regular, initial) ==
    IF idx = 0 THEN regular + initial ELSE regular

\* bug variant of AddShares: '=' in place of '+='
AddSharesAssign(shares, contribution, price) == FDiv(F(contribution), F(price))

\* the running share count after buying with contribution at price
AddShares(shares, contribution, price) ==
    FAdd(shares, FDiv(F(contribution), F(price)))

\* bug variant of AddInvested: '=' in place of '+='
AddInvestedAssign(invested, contribution) == F(contribution)

\* the running invested capital after contribution
AddInvested(invested, contribution) == FAdd(invested, F(contribution))

\* bug variant of LogEntry: the portfolio valued at cost
LogEntryValueAtCost(date, price, shares, invested) ==
    [Date |-> date, Price |-> price, TotalShares |-> shares,
     TotalInvestment |-> invested, PortfolioValue |-> invested]

\* the record appended to dca_log
LogEntry(date, price, shares, invested) ==
    [Date |-> date, Price |-> price, TotalShares |-> shares,
     TotalInvestment |-> invested, PortfolioValue |-> FMul(shares, F(price))]

Init ==
    /\ filtered_data \in SeqsUpTo(Rows, MaxLen)
    /\ regular_contribution \in Contributions
    /\ initial_investment \in Contributions
    /\ i = 0
    /\ total_invested = F(0)
    /\ total_shares = F(0)
    /\ dca_log = <<>>
    /\ pc = "loop"
    /\ result = NotComputed
    /\ final_value = NotComputed
    /\ net_gain_loss = NotComputed
    /\ net_gain_loss_pct = NotComputed

\* bug variant of LoopBody: a row repeating the previous row's date is
\* processed but not logged
LoopBodySkipRepeatedDate ==
    /\ pc = "loop"
    /\ i < Len(filtered_data)
    /\ LET row == filtered_data[i + 1]
           price == row.Close
           contribution == Contribution(i, regular_contribution, initial_investment)
           shares == AddShares(total_shares, contribution, price)
           invested == AddInvested(total_invested, contribution)
       IN /\ total_shares' = shares
          /\ total_invested' = invested
          /\ dca_log' = IF i > 0 /\ filtered_data[i].Date = row.Date
                        THEN dca_log
                        ELSE Append(dca_log, LogEntry(row.Date, price, shares, invested))
    /\ i' = i + 1
    /\ UNCHANGED <<filtered_data, regular_contribution, initial_investment, pc,
                   result, final_value, net_gain_loss, net_gain_loss_pct>>

\* bug variant of LoopBody: the entry is logged before the totals are updated
LoopBodyLogBeforeUpdate ==
    /\ pc = "loop"
    /\ i < Len(filtered_data)
    /\ LET row == filtered_data[i + 1]
           price == row.Close
           contribution == Contribution(i, regular_contribution, initial_investment)
       IN /\ dca_log' = Append(dca_log, LogEntry(row.Date, price, total_shares, total_invested))
          /\ total_shares' = AddShares(total_shares, contribution, price)
          /\ total_invested' = AddInvested(total_invested, contribution)
    /\ i' = i + 1
    /\ UNCHANGED <<filtered_data, regular_contribution, initial_investment, pc,
                   result, final_value, net_gain_loss, net_gain_loss_pct>>

\* one iteration of the for loop
LoopBody ==
    /\ pc = "loop"
    /\ i < Len(filtered_data)
    /\ LET row == filtered_data[i + 1]
           price == row.Close
           contribution == Contribution(i, regular_contribution, initial_investment)
           shares == AddShares(total_shares, contribution, price)
           invested == AddInvested(total_invested, contribution)
       IN /\ total_shares' = shares
          /\ total_invested' = invested
          /\ dca_log' = Append(dca_log, LogEntry(row.Date, price, shares, invested))
    /\ i' = i + 1
    /\ UNCHANGED <<filtered_data, regular_contribution, initial_investment, pc,
                   result, final_value, net_gain_loss, net_gain_loss_pct>>

\* the loop is exhausted: return the log and the two totals
Return ==
    /\ pc = "loop"
    /\ i = Len(filtered_data)
    /\ result' = [ledger |-> dca_log, total_shares |-> total_shares,
                  total_invested |-> total_invested]
    /\ pc' = "returned"
    /\ UNCHANGED <<filtered_data, regular_contribution, initial_investment, i,
                   total_invested, total_shares, dca_log,
                   final_value, net_gain_loss, net_gain_loss_pct>>

\* ---- main: the derived metrics ----
\* main only calls with contributions the widgets allow and a non-empty frame
MainInputs ==
    /\ regular_contribution >= 0
    /\ initial_investment >= 0
    /\ Len(filtered_data) > 0

Percent(gain, invested) == FMul(FDiv(gain, invested), F(100))

MainResults ==
    /\ pc = "returned"
    /\ MainInputs
    /\ LET value == result.ledger[Len(result.ledger)].PortfolioValue
           gain == FSub(value, result.total_invested)
       IN /\ final_value' = value
          /\ net_gain_loss' = gain
          /\ net_gain_loss_pct' = Percent(gain, result.total_invested)
    /\ pc' = "results"
    /\ UNCHANGED <<filtered_data, regular_contribution, initial_investment, i,
                   total_invested, total_shares, dca_log, result>>

Next == LoopBody \/ Return \/ MainResults

Spec == Init /\ [][Next]_vars

\* ---- inputs the properties range over ----
ValidInputs ==
    /\ regular_contribution >= 0
    /\ initial_investment >= 0
    /\ \A k \in 1..Len(filtered_data) : filtered_data[k].Close > 0

HasNonPositivePrice == \E k \in 1..Len(filtered_data) : filtered_data[k].Close <= 0

Returned == pc # "loop"

Closes == [k \in 1..Len(filtered_data) |-> filtered_data[k].Close]

\* the first two intervals of the reference scenario of
\* test_calculate_dca_basic, after the call
ReferenceScenario ==
    /\ Returned
    /\ Closes = <<10, 20>>
    /\ regular_contribution = 100
    /\ initial_investment = 50

\* sum of the contributions of the first n intervals
RECURSIVE SumContributions(_)
SumContributions(n) ==
    IF n = 0 THEN 0
    ELSE SumContributions(n - 1)
         + (IF n = 1 THEN regular_contribution + initial_investment
            ELSE regular_contribution)

\* sum over the first n intervals of contribution_j / price_j
RECURSIVE SumPurchases(_)
SumPurchases(n) ==
    IF n = 0 THEN F(0)
    ELSE FAdd(SumPurchases(n - 1),
              FDiv(F(IF n = 1 THEN regular_contribution + initial_investment
                     ELSE regular_contribution),
                   F(filtered_data[n].Close)))

\* C1: for valid inputs, 'Total Investment' of every ledger entry is the
\* cumulative sum of the contributions up to and including that interval
\* (the first being regular + initial, the later ones regular), and the
\* returned total_invested is that sum over all n >= 1 intervals.
C1_TotalInvestmentIsCumulativeSum ==
    ValidInputs =>
        /\ \A k \in 1..Len(dca_log) :
              dca_log[k].TotalInvestment = F(SumContributions(k))
        /\ (Returned /\ Len(filtered_data) >= 1) =>
              result.total_invested = F(SumContributions(Len(filtered_data)))

C1_Witness ==
    /\ ReferenceScenario
    /\ [k \in 1..2 |-> result.ledger[k].TotalInvestment] = <<F(150), F(250)>>
    /\ result.total_invested = F(250)

\* C2: for valid inputs, 'Total Shares' of every ledger entry is the sum over
\* the intervals up to and including it of contribution_j / price_j, each
\* contribution divided by the price of its own interval.
C2_TotalSharesIsSumOfPurchases ==
    ValidInputs =>
        \A k \in 1..Len(dca_log) : dca_log[k].TotalShares = SumPurchases(k)

C2_Witness ==
    /\ ReferenceScenario
    /\ [k \in 1..2 |-> result.ledger[k].TotalShares] = <<F(15), F(20)>>

\* C3 as stated: for valid inputs, 'Total Investment' of the entry with
\* 0-based index j is regular*(j+1), plus initial only when j = 0.
C3_Original ==
    ValidInputs =>
        \A k \in 1..Len(dca_log) :
            dca_log[k].TotalInvestment =
                F(regular_contribution * k
                  + (IF k = 1 THEN initial_investment ELSE 0))

\* C3 amended: for valid inputs, 'Total Investment' of the entry with 0-based
\* index j is regular*(j+1) + initial, for every j: the initial investment
\* stays in the running total after the first interval.
C3_Conservation ==
    ValidInputs =>
        \A k \in 1..Len(dca_log) :
            dca_log[k].TotalInvestment =
                F(regular_contribution * k + initial_investment)

C3_Witness ==
    /\ ValidInputs
    /\ initial_investment > 0
    /\ Len(dca_log) >= 2
    /\ dca_log[2].TotalInvestment = F(regular_contribution * 2 + initial_investment)

\* C4: whenever the series contains a price <= 0, the call never returns a
\* ledger, no division by a non-positive price is performed, and no infinite
\* or undefined share count arises.
C4_NonPositivePriceFails ==
    (HasNonPositivePrice /\ regular_contribution >= 0 /\ initial_investment >= 0) =>
        /\ ~Returned
        /\ \A k \in 1..Len(dca_log) : dca_log[k].Price > 0
        /\ IsFinite(total_shares)

\* C5: whenever a contribution parameter is negative, the call fails at its
\* entry: no interval is processed and no ledger is returned.
C5_NegativeParameterFails ==
    (regular_contribution < 0 \/ initial_investment < 0) =>
        /\ i = 0
        /\ dca_log = <<>>
        /\ ~Returned

\* C6: for valid inputs, 'Total Shares' and 'Total Investment' are >= 0 in
\* every ledger entry and non-decreasing from each entry to the next.
C6_Monotonicity ==
    ValidInputs =>
        \A k \in 1..Len(dca_log) :
            /\ FLe(F(0), dca_log[k].TotalShares)
            /\ FLe(F(0), dca_log[k].TotalInvestment)
            /\ k > 1 =>
                /\ FLe(dca_log[k - 1].TotalShares, dca_log[k].TotalShares)
                /\ FLe(dca_log[k - 1].TotalInvestment, dca_log[k].TotalInvestment)

C6_Witness ==
    /\ ValidInputs
    /\ Returned
    /\ Len(result.ledger) = MaxLen
    /\ \A k \in 2..MaxLen :
          /\ result.ledger[k - 1].TotalShares # result.ledger[k].TotalShares
          /\ result.ledger[k - 1].TotalInvestment # result.ledger[k].TotalInvestment

\* C7: the ledger has one entry per processed interval, the returned ledger
\* one per input interval (none for an empty input), and entry k carries the
\* date and price of input interval k, in input order.
C7_LengthAndOrder ==
    /\ Len(dca_log) = i
    /\ \A k \in 1..Len(dca_log) :
          /\ dca_log[k].Date = filtered_data[k].Date
          /\ dca_log[k].Price = filtered_data[k].Close
    /\ Returned =>
          /\ Len(result.ledger) = Len(filtered_data)
          /\ \A k \in 1..Len(filtered_data) :
                /\ result.ledger[k].Date = filtered_data[k].Date
                /\ result.ledger[k].Price = filtered_data[k].Close

\* an input sorted neither by date nor by price
C7_Witness ==
    /\ Returned
    /\ Len(result.ledger) = 2
    /\ [k \in 1..2 |-> result.ledger[k].Date] = <<2, 1>>
    /\ [k \in 1..2 |-> result.ledger[k].Price] = <<20, 10>>

\* C8: the returned total_shares and total_invested are the 'Total Shares'
\* and 'Total Investment' of the last ledger entry for a non-empty input,
\* and both 0 with an empty ledger for an empty input.
C8_TotalsMatchLastEntry ==
    Returned =>
        IF Len(filtered_data) > 0
        THEN /\ Len(result.ledger) > 0
             /\ result.total_shares = result.ledger[Len(result.ledger)].TotalShares
             /\ result.total_invested = result.ledger[Len(result.ledger)].TotalInvestment
        ELSE result = [ledger |-> <<>>, total_shares |-> F(0), total_invested |-> F(0)]

C8_Witness ==
    /\ ReferenceScenario
    /\ result.total_shares = F(20)
    /\ result.ledger[2].TotalShares = F(20)
    /\ result.ledger[2].TotalInvestment = F(250)

C8_WitnessEmpty ==
    /\ Returned
    /\ filtered_data = <<>>
    /\ result.ledger = <<>>

\* C9: in every ledger entry 'Portfolio Value' is that entry's 'Total Shares'
\* times that entry's 'Price'; with both contribution parameters zero (and
\* prices > 0) every entry has zero shares, investment and portfolio value.
C9_PortfolioValueIdentity ==
    /\ \A k \in 1..Len(dca_log) :
          dca_log[k].PortfolioValue =
              FMul(dca_log[k].TotalShares, F(dca_log[k].Price))
    /\ (ValidInputs /\ regular_contribution = 0 /\ initial_investment = 0) =>
          \A k \in 1..Len(dca_log) :
              /\ dca_log[k].TotalShares = F(0)
              /\ dca_log[k].TotalInvestment = F(0)
              /\ dca_log[k].PortfolioValue = F(0)

C9_Witness ==
    /\ ReferenceScenario
    /\ [k \in 1..2 |-> result.ledger[k].PortfolioValue] = <<F(150), F(400)>>

C9_WitnessZero ==
    /\ ValidInputs
    /\ regular_contribution = 0
    /\ initial_investment = 0
    /\ Len(dca_log) = MaxLen

\* C10: the caller's metrics are finalValue = last portfolio value,
\* netGainLoss = finalValue - totalInvested, netGainLossPct = netGainLoss /
\* totalInvested * 100, and with totalInvested = 0 the percentage is left
\* undefined instead of being computed by a division by zero.
C10_DerivedMetrics ==
    (pc = "results" /\ ValidInputs) =>
        /\ final_value = result.ledger[Len(result.ledger)].PortfolioValue
        /\ net_gain_loss = FSub(final_value, result.total_invested)
        /\ IF IsZero(result.total_invested)
           THEN net_gain_loss_pct = NotComputed
           ELSE net_gain_loss_pct =
                    FMul(FDiv(net_gain_loss, result.total_invested), F(100))
====
